---------------------------- MODULE Spec2Model ----------------------------
(***************************************************************************)
(* Model of setup.py, the setup validator of the ElevenLabs Force          *)
(* Alignment SRT Generator: check_environment, check_dependencies,         *)
(* create_sample_files and main, run as a script (sys.exit(main())).       *)
(*                                                                         *)
(* One run of the script is the path                                       *)
(*   import -> main -> env_checked -> deps_checked                         *)
(*          -> workspace_ready -> returned   (exit code 0)                 *)
(*          -> returned                      (exit code 1)                 *)
(* with "raised" for an exception that leaves main() and "import_failed"   *)
(* for the script dying on its own top-level import of dotenv.  The        *)
(* operator may run the script again; the working directory is kept from   *)
(* one run to the next, the process state is not.                          *)
(***************************************************************************)
EXTENDS Integers, Sequences, FiniteSets, TLC

VARIABLES
    pc,               \* position of the running script
    runs,             \* how many times the script has been started
    envFile,          \* Path(".env").exists()
    exampleFile,      \* Path(".env.example").exists()
    dotenvValues,     \* what .env defines for each key (None: not defined)
    environ,          \* os.environ of the process, for the two keys
    dirs,             \* "samples" and "test_output": absent, dir or file
    dirsAtStart,      \* dirs when this run started
    importResult,     \* outcome of importing each module, "untried" before
    attempted,        \* modules check_dependencies tried, in order
    env_valid,        \* main's local env_valid
    deps_valid,       \* main's local deps_valid
    errors,           \* check_environment's local errors
    missing_packages, \* check_dependencies' local missing_packages
    calls,            \* functions main has called, in order
    wsCalls,          \* completed create_sample_files calls, over all runs
    out,              \* lines printed, in order
    exit_code,        \* main's return value, -1 before it returns
    raisedBy,         \* the function an exception left main from, "" if none
    exit_status       \* the status the process ended with, -1 while it runs

vars == <<pc, runs, envFile, exampleFile, dotenvValues, environ, dirs,
          dirsAtStart, importResult, attempted, env_valid, deps_valid,
          errors, missing_packages, calls, wsCalls, out, exit_code,
          raisedBy, exit_status>>

---------------------------------------------------------------------------
(* Bounds *)

\* How many times the operator starts the script.
MaxRuns == 2

---------------------------------------------------------------------------
(* Values *)

None == "None"

ELEVENLABS == "ELEVENLABS_API_KEY"
GEMINI == "GEMINI_API_KEY"
Keys == {ELEVENLABS, GEMINI}

\* The placeholder check_environment compares each key with.
Placeholder(key) ==
    IF key = ELEVENLABS THEN "your_elevenlabs_api_key_here"
                        ELSE "your_gemini_api_key_here"

\* What a line of .env can give a key: nothing, KEY= , the placeholder of
\* either key, or a real value.
FileValues == {None, "", Placeholder(ELEVENLABS), Placeholder(GEMINI),
               "sk-real-value"}

\* What the shell that starts the script exports for a key.
ShellValues == {None, "sk-from-shell"}

\* required_packages, in insertion order: module name and package name.
RequiredModules == <<"requests", "dotenv", "google.generativeai">>

PackageName(module) ==
    CASE module = "requests" -> "requests"
      [] module = "dotenv" -> "python-dotenv"
      [] module = "google.generativeai" -> "google-generativeai"

\* What an import statement can do: succeed, raise ImportError (which
\* ModuleNotFoundError is), raise AttributeError, or raise anything else the
\* module's top-level code raises.
ImportOutcomes == {"ok", "ImportError", "AttributeError", "TypeError"}

DirNames == {"samples", "test_output"}
PathKinds == {"absent", "dir", "file"}

---------------------------------------------------------------------------
(* check_environment *)

\* load_dotenv() with its default override=False: a key the file defines is
\* put in os.environ unless the environment already holds it.
LoadDotenv(env, fileValues) ==
    [k \in Keys |-> IF env[k] # None THEN env[k] ELSE fileValues[k]]

\* CredentialStatus with `if value is None` for `if not value`.
CredentialStatusNoneOnly(value, placeholder) ==
    IF value = None THEN "not_set"
    ELSE IF value = placeholder THEN "placeholder"
    ELSE "found"

\* CredentialStatus without the elif that compares with the placeholder.
CredentialStatusNoPlaceholder(value, placeholder) ==
    IF value = None \/ value = "" THEN "not_set"
    ELSE "found"

\* The if / elif / else on one key.
CredentialStatus(value, placeholder) ==
    IF value = None \/ value = "" THEN "not_set"
    ELSE IF value = placeholder THEN "placeholder"
    ELSE "found"

\* A printed line is a tuple of its parts; a fixed text is a line of one part.
Lines(texts) == [i \in DOMAIN texts |-> <<texts[i]>>]

ErrorText(key, status) ==
    IF status = "not_set" THEN <<key, "is not set in .env file">>
                          ELSE <<key, "still has the placeholder value">>

\* The errors one key appends, and the lines it prints.
KeyErrors(key, env) ==
    LET s == CredentialStatus(env[key], Placeholder(key))
    IN  IF s = "found" THEN <<>> ELSE <<ErrorText(key, s)>>

KeyOutput(key, env) ==
    LET s == CredentialStatus(env[key], Placeholder(key))
    IN  IF s = "found" THEN <<<<key, "found">>>> ELSE <<>>

\* The instructions printed when .env is missing.
MissingFileGuidance(example) ==
    Lines(<<".env file not found!", "Instructions to create .env file:">>) \o
    ( IF example
        THEN Lines(<<"1. Copy the example file: cp .env.example .env",
                     "2. Edit .env and add your API keys">>)
        ELSE Lines(<<"1. Create a new .env file",
                     "2. Add the following lines:",
                     "ELEVENLABS_API_KEY=your_elevenlabs_api_key_here",
                     "GEMINI_API_KEY=your_gemini_api_key_here">>) )

ErrorReport(errs) ==
    Lines(<<"Configuration Errors:">>) \o errs \o
    Lines(<<"How to get API keys:", "ElevenLabs: https://elevenlabs.io/",
            "Google Gemini: https://makersuite.google.com/app/apikey">>)

\* The value check_environment returns once .env is known to exist.
EnvironmentOk(errs) == errs = <<>>

\* check_environment() without the early return on a missing .env.
CheckEnvironmentNoFileCheck(fileExists, example, env, fileValues) ==
    LET loaded == LoadDotenv(env, fileValues)
        errs == KeyErrors(ELEVENLABS, loaded) \o KeyErrors(GEMINI, loaded)
    IN  [environ |-> loaded, errors |-> errs,
         out |-> KeyOutput(ELEVENLABS, loaded) \o KeyOutput(GEMINI, loaded),
         ret |-> EnvironmentOk(errs)]

\* check_environment() that stops at the first key in error.
CheckEnvironmentFirstErrorOnly(fileExists, example, env, fileValues) ==
    LET loaded == LoadDotenv(env, fileValues)
        first == KeyErrors(ELEVENLABS, loaded)
        errs == IF first # <<>> THEN first ELSE KeyErrors(GEMINI, loaded)
        found == IF first # <<>> THEN <<>>
                 ELSE KeyOutput(ELEVENLABS, loaded) \o KeyOutput(GEMINI, loaded)
    IN  IF ~fileExists
          THEN [environ |-> env, errors |-> <<>>, out |-> <<>>, ret |-> FALSE]
          ELSE [environ |-> loaded, errors |-> errs, out |-> found,
                ret |-> EnvironmentOk(errs)]

\* check_environment(): environment, errors, printed lines, returned value.
CheckEnvironmentRun(fileExists, example, env, fileValues) ==
    LET banner == Lines(<<"ElevenLabs Force Alignment Setup Validator">>)
    IN  IF ~fileExists
          THEN [environ |-> env, errors |-> <<>>,
                out |-> banner \o MissingFileGuidance(example),
                ret |-> FALSE]
          ELSE
            LET loaded == LoadDotenv(env, fileValues)
                errs == KeyErrors(ELEVENLABS, loaded) \o KeyErrors(GEMINI, loaded)
                found == KeyOutput(ELEVENLABS, loaded) \o KeyOutput(GEMINI, loaded)
            IN  [environ |-> loaded, errors |-> errs,
                 out |-> banner \o found \o
                         ( IF errs # <<>>
                             THEN ErrorReport(errs)
                             ELSE Lines(<<"All required API keys are configured!">>) ),
                 ret |-> EnvironmentOk(errs)]

---------------------------------------------------------------------------
(* check_dependencies *)

\* except (ImportError, AttributeError)
Caught(outcome) == outcome \in {"ImportError", "AttributeError"}

\* The for loop from index i on: each module is imported; a caught failure
\* appends its package name, any other exception leaves the loop and the
\* function.
RECURSIVE ImportLoop(_, _, _, _, _)
ImportLoop(i, results, tried, missing, printed) ==
    IF i > Len(RequiredModules)
      THEN [raised |-> FALSE, attempted |-> tried, missing |-> missing,
            out |-> printed]
      ELSE
        LET m == RequiredModules[i]
            r == results[m]
        IN  IF r = "ok"
              THEN ImportLoop(i + 1, results, Append(tried, m), missing,
                     Append(printed, <<PackageName(m), "is installed">>))
            ELSE IF Caught(r)
              THEN ImportLoop(i + 1, results, Append(tried, m),
                     Append(missing, PackageName(m)),
                     Append(printed, <<PackageName(m), "is NOT installed">>))
            ELSE [raised |-> TRUE, attempted |-> Append(tried, m),
                  missing |-> missing, out |-> printed]

\* The value check_dependencies returns after the loop.
DependenciesOk(missing) == missing = <<>>

MissingReport(missing) ==
    Lines(<<"Missing packages detected!", "Install them with:">>) \o
    << <<"pip install">> \o missing >> \o
    Lines(<<"Or install all dependencies:", "pip install -r requirements.txt">>)

---------------------------------------------------------------------------
(* create_sample_files *)

\* Path.mkdir() without exist_ok=True: an existing directory raises too.
MkdirExclusive(kind) ==
    CASE kind = "absent" -> [raised |-> FALSE, kind |-> "dir"]
      [] OTHER -> [raised |-> TRUE, kind |-> kind]

\* Path.mkdir(exist_ok=True) on a path of the working directory: an absent
\* path becomes a directory, a directory is left alone, anything else
\* raises FileExistsError.
Mkdir(kind) ==
    CASE kind = "absent" -> [raised |-> FALSE, kind |-> "dir"]
      [] kind = "dir" -> [raised |-> FALSE, kind |-> "dir"]
      [] OTHER -> [raised |-> TRUE, kind |-> kind]

\* create_sample_files(): samples first, test_output only after it.
CreateSampleFilesRun(d) ==
    LET s == Mkdir(d["samples"])
        d1 == [d EXCEPT !["samples"] = s.kind]
        t == Mkdir(d1["test_output"])
        d2 == [d1 EXCEPT !["test_output"] = t.kind]
        head == Lines(<<"Setting up sample directories...">>)
    IN  IF s.raised
          THEN [raised |-> TRUE, dirs |-> d1, out |-> head]
        ELSE IF t.raised
          THEN [raised |-> TRUE, dirs |-> d2,
                out |-> head \o Lines(<<"Created samples directory">>)]
        ELSE [raised |-> FALSE, dirs |-> d2,
              out |-> head \o Lines(<<"Created samples directory",
                                      "Created test_output directory",
                                      "Next steps:">>)]

---------------------------------------------------------------------------
(* main *)

\* `if env_valid or deps_valid`
BothValidEither(ev, dv) == ev \/ dv

\* if env_valid and deps_valid
BothValid(ev, dv) == ev /\ dv

\* No import has been attempted yet.
Untried == [m \in {"requests", "dotenv", "google.generativeai"} |-> "untried"]

\* What the operator and the shell set up before a run: whether .env and
\* .env.example exist, what .env defines, what the shell exports.  A file
\* that does not exist defines nothing.
Worlds ==
    { w \in [file : BOOLEAN, example : BOOLEAN,
             values : [Keys -> FileValues], shell : [Keys -> ShellValues]] :
        ~w.file => w.values = [k \in Keys |-> None] }

Init ==
    /\ pc = "import"
    /\ runs = 1
    /\ \E w \in Worlds :
         /\ envFile = w.file
         /\ exampleFile = w.example
         /\ dotenvValues = w.values
         /\ environ = w.shell
    /\ dirs \in [DirNames -> PathKinds]
    /\ dirsAtStart = dirs
    /\ wsCalls = 0
    /\ importResult = Untried
    /\ attempted = <<>>
    /\ env_valid = FALSE
    /\ deps_valid = FALSE
    /\ errors = <<>>
    /\ missing_packages = <<>>
    /\ calls = <<>>
    /\ out = <<>>
    /\ exit_code = -1
    /\ raisedBy = ""
    /\ exit_status = -1

\* Lines 7-10: the script's own imports.  `from dotenv import load_dotenv`
\* ends the process when dotenv cannot be imported; afterwards dotenv is in
\* sys.modules and importing it again succeeds.
ImportModule ==
    /\ pc = "import"
    /\ \E r \in ImportOutcomes :
         /\ importResult' = [importResult EXCEPT !["dotenv"] = r]
         /\ pc' = IF r = "ok" THEN "main" ELSE "import_failed"
    /\ UNCHANGED <<runs, envFile, exampleFile, dotenvValues, environ, dirs,
                   dirsAtStart, attempted, env_valid, deps_valid, errors,
                   missing_packages, calls, wsCalls, out, exit_code, raisedBy,
                   exit_status>>

\* env_valid = check_environment()
CheckEnvironment ==
    /\ pc = "main"
    /\ LET r == CheckEnvironmentRun(envFile, exampleFile, environ, dotenvValues)
       IN  /\ environ' = r.environ
           /\ errors' = r.errors
           /\ env_valid' = r.ret
           /\ out' = Lines(<<"ElevenLabs Force Alignment Setup">>) \o r.out
    /\ calls' = Append(calls, "check_environment")
    /\ pc' = "env_checked"
    /\ UNCHANGED <<runs, envFile, exampleFile, dotenvValues, dirs, dirsAtStart,
                   importResult, attempted, deps_valid, missing_packages,
                   wsCalls, exit_code, raisedBy,
                   exit_status>>

\* main with `deps_valid = env_valid and check_dependencies()`: the
\* dependency check is skipped when the environment check failed.
CheckDependenciesShortCircuit ==
    /\ pc = "env_checked"
    /\ pc' = "deps_checked"
    /\ deps_valid' = env_valid
    /\ UNCHANGED <<runs, envFile, exampleFile, dotenvValues, environ, dirs,
                   dirsAtStart, importResult, attempted, env_valid, errors,
                   missing_packages, calls, wsCalls, out, exit_code, raisedBy,
                   exit_status>>

\* deps_valid = check_dependencies()
CheckDependencies ==
    /\ pc = "env_checked"
    /\ \E rq \in ImportOutcomes, gg \in ImportOutcomes :
         LET results == [importResult EXCEPT !["requests"] = rq,
                                             !["google.generativeai"] = gg]
             r == ImportLoop(1, results, <<>>, <<>>,
                             Lines(<<"Checking Python dependencies...">>))
         IN  /\ importResult' = [m \in DOMAIN results |->
                                   IF m \in { r.attempted[i] : i \in DOMAIN r.attempted }
                                     THEN results[m] ELSE importResult[m]]
             /\ attempted' = r.attempted
             /\ missing_packages' = r.missing
             /\ IF r.raised
                  THEN /\ pc' = "raised"
                       /\ raisedBy' = "check_dependencies"
                       /\ out' = out \o r.out
                       /\ UNCHANGED deps_valid
                  ELSE /\ pc' = "deps_checked"
                       /\ UNCHANGED raisedBy
                       /\ deps_valid' = DependenciesOk(r.missing)
                       /\ out' = out \o r.out \o
                                 ( IF r.missing # <<>>
                                     THEN MissingReport(r.missing) ELSE <<>> )
    /\ calls' = Append(calls, "check_dependencies")
    /\ UNCHANGED <<runs, envFile, exampleFile, dotenvValues, environ, dirs,
                   dirsAtStart, env_valid, errors, wsCalls, exit_code,
                   exit_status>>

\* The true branch of main, up to the end of create_sample_files().
CreateSampleFiles ==
    /\ pc = "deps_checked"
    /\ BothValid(env_valid, deps_valid)
    /\ LET r == CreateSampleFilesRun(dirs)
       IN  /\ dirs' = r.dirs
           /\ out' = out \o r.out
           /\ pc' = IF r.raised THEN "raised" ELSE "workspace_ready"
           /\ wsCalls' = IF r.raised THEN wsCalls ELSE wsCalls + 1
           /\ raisedBy' = IF r.raised THEN "create_sample_files" ELSE ""
    /\ calls' = Append(calls, "create_sample_files")
    /\ UNCHANGED <<runs, envFile, exampleFile, dotenvValues, environ,
                   dirsAtStart, importResult, attempted, env_valid, deps_valid,
                   errors, missing_packages, exit_code, exit_status>>

\* The rest of the true branch: the success summary and return 0.
ReturnSuccess ==
    /\ pc = "workspace_ready"
    /\ out' = out \o Lines(<<"Setup validation completed successfully!">>)
    /\ exit_code' = 0
    /\ pc' = "returned"
    /\ UNCHANGED <<runs, envFile, exampleFile, dotenvValues, environ, dirs,
                   dirsAtStart, importResult, attempted, env_valid, deps_valid,
                   errors, missing_packages, calls, wsCalls, raisedBy,
                   exit_status>>

\* The else branch: the failure summary and return 1.
ReturnFailure ==
    /\ pc = "deps_checked"
    /\ ~BothValid(env_valid, deps_valid)
    /\ out' = out \o Lines(<<"Setup validation failed!">>)
    /\ exit_code' = 1
    /\ pc' = "returned"
    /\ UNCHANGED <<runs, envFile, exampleFile, dotenvValues, environ, dirs,
                   dirsAtStart, importResult, attempted, env_valid, deps_valid,
                   errors, missing_packages, calls, wsCalls, raisedBy,
                   exit_status>>

\* main() is over: it returned, or an exception left it.
MainEnded == pc \in {"returned", "raised"}

\* sys.exit(main()): the process ends with main's return value as its
\* status, or with status 1 when an exception reached the top level (the
\* script's failed import included).  Its state is gone, the working
\* directory stays.
Exit ==
    /\ pc \in {"returned", "raised", "import_failed"}
    /\ pc' = "exited"
    /\ exit_status' = IF pc = "returned" THEN exit_code ELSE 1
    /\ importResult' = Untried
    /\ attempted' = <<>>
    /\ env_valid' = FALSE
    /\ deps_valid' = FALSE
    /\ errors' = <<>>
    /\ missing_packages' = <<>>
    /\ calls' = <<>>
    /\ out' = <<>>
    /\ exit_code' = -1
    /\ raisedBy' = ""
    /\ UNCHANGED <<runs, envFile, exampleFile, dotenvValues, environ, dirs,
                   dirsAtStart, wsCalls>>

\* "Please fix the issues above and run setup.py again": the operator edits
\* the configuration and starts the script anew, in a shell that exports
\* what it exports.  The directories are as the last run left them.
RunAgain ==
    /\ pc = "exited"
    /\ runs < MaxRuns
    /\ runs' = runs + 1
    /\ pc' = "import"
    /\ \E w \in Worlds :
         /\ envFile' = w.file
         /\ exampleFile' = w.example
         /\ dotenvValues' = w.values
         /\ environ' = w.shell
    /\ dirsAtStart' = dirs
    /\ exit_status' = -1
    /\ UNCHANGED <<dirs, wsCalls, importResult, attempted, env_valid,
                   deps_valid, errors, missing_packages, calls, out,
                   exit_code, raisedBy>>

Next ==
    \/ ImportModule
    \/ CheckEnvironment
    \/ CheckDependencies
    \/ CreateSampleFiles
    \/ ReturnSuccess
    \/ ReturnFailure
    \/ Exit
    \/ RunAgain

Spec == Init /\ [][Next]_vars

---------------------------------------------------------------------------
(* Properties *)

Range(seq) == { seq[i] : i \in DOMAIN seq }

AllDirs == [d \in DirNames |-> "dir"]

\* check_environment() has returned in this run.
EnvironmentChecked == Len(calls) >= 1

\* check_dependencies() has been called in this run, and has returned.
DependenciesCalled == Len(calls) >= 2
DependenciesReturned == DependenciesCalled /\ raisedBy # "check_dependencies"

\* The entries of errors that name a key.
ErrorsFor(key) == { i \in DOMAIN errors : errors[i][1] = key }

FoundLine(key) == <<key, "found">> \in Range(out)

\* The modules whose import failed, as package names in requirement order.
RECURSIVE FailedPackages(_)
FailedPackages(i) ==
    IF i > Len(RequiredModules) THEN <<>>
    ELSE ( IF importResult[RequiredModules[i]] \in {"ok", "untried"}
             THEN <<>> ELSE <<PackageName(RequiredModules[i])>> )
         \o FailedPackages(i + 1)

\* C1: once both validators have returned and main is over, main has
\* returned, with 0 when both returned True and with 1 in every other
\* combination.
C1_ExitCodeLaw ==
    (MainEnded /\ DependenciesReturned) =>
        /\ pc = "returned"
        /\ exit_code = IF env_valid /\ deps_valid THEN 0 ELSE 1

\* C2: while the process lives, create_sample_files has been called only
\* if both validators returned True; as long as either has not, it has not
\* been called and "samples" and "test_output" are as they were when the
\* run started.
C2_WorkspaceOnlyWhenValid ==
    pc # "exited" =>
        /\ "create_sample_files" \in Range(calls) => (env_valid /\ deps_valid)
        /\ ~(env_valid /\ deps_valid) =>
             /\ "create_sample_files" \notin Range(calls)
             /\ dirs = dirsAtStart

\* Scenario D: environment valid, a dependency missing, main returned 1 and
\* the directories are still absent.
C2_Witness ==
    /\ pc = "returned"
    /\ exit_code = 1
    /\ env_valid /\ ~deps_valid
    /\ dirsAtStart = [d \in DirNames |-> "absent"]
    /\ dirs = dirsAtStart

\* C3: when main has returned 0, "samples" and "test_output" are
\* directories and both keys are in os.environ with a value that is not
\* the key's placeholder.
C3_SuccessMeansReady ==
    (pc = "returned" /\ exit_code = 0) =>
        /\ dirs = AllDirs
        /\ \A k \in Keys : environ[k] # None /\ environ[k] # Placeholder(k)

\* Scenario C: main returned 0 in a run that started without directories.
C3_Witness ==
    /\ pc = "returned"
    /\ exit_code = 0
    /\ dirsAtStart = [d \in DirNames |-> "absent"]

C5_NoCrash ==
    /\ pc # "raised"
    /\ pc = "returned" => exit_code \in {0, 1}

\* C6 as stated: check_environment returns True exactly when .env exists
\* and both keys are present in the environment and differ from their
\* placeholders.
C6_PresentAndNotPlaceholder ==
    EnvironmentChecked =>
        ( env_valid <=>
            /\ envFile
            /\ \A k \in Keys : environ[k] # None /\ environ[k] # Placeholder(k) )

\* C6 as amended: check_environment returns True exactly when .env exists
\* and both keys are present in the environment with a value that is not
\* empty and differs from the key's placeholder; without .env it returns
\* False whatever the keys are, and .env.example never changes the result.
C6_NonEmptyAndNotPlaceholder ==
    EnvironmentChecked =>
        ( env_valid <=>
            /\ envFile
            /\ \A k \in Keys : /\ environ[k] # None
                               /\ environ[k] # ""
                               /\ environ[k] # Placeholder(k) )

\* .env exists, one key is defined empty, the other is real, and
\* check_environment returned False.
C6_Witness ==
    /\ pc = "env_checked"
    /\ envFile
    /\ environ[ELEVENLABS] = ""
    /\ environ[GEMINI] = "sk-real-value"
    /\ ~env_valid

\* C7: check_dependencies tries all three modules, records exactly the
\* packages whose import failed, in requirement order, and returns True
\* exactly when it recorded none.
C7_FullAggregation ==
    DependenciesCalled =>
        /\ attempted = RequiredModules
        /\ missing_packages = FailedPackages(1)
        /\ raisedBy # "check_dependencies"
        /\ deps_valid <=> (missing_packages = <<>>)

\* C8: a call of create_sample_files after an earlier one has completed
\* raises nothing and leaves both directories as they are.
C8_Idempotent ==
    [][ ( /\ wsCalls >= 1
          /\ Len(calls) = 2
          /\ calls' = Append(calls, "create_sample_files") )
        => ( /\ pc' = "workspace_ready"
             /\ dirs = AllDirs
             /\ dirs' = dirs ) ]_vars

\* create_sample_files has completed twice.
C8_Witness ==
    /\ wsCalls = 2
    /\ pc = "workspace_ready"
    /\ dirsAtStart = AllDirs

\* C9: with .env present, each key that is missing or holds its placeholder
\* has exactly one entry in errors, "is not set" for a missing key and
\* "placeholder" for a placeholder, and makes the check fail; an accepted
\* key has no entry and has its "found" line, whatever the other key is;
\* with both keys missing the list is the two entries, in order.
C9_PerKeyErrors ==
    (EnvironmentChecked /\ envFile) =>
        /\ \A k \in Keys :
             /\ environ[k] = None =>
                  /\ Cardinality(ErrorsFor(k)) = 1
                  /\ \A i \in ErrorsFor(k) : errors[i] = <<k, "is not set in .env file">>
                  /\ ~env_valid
             /\ environ[k] = Placeholder(k) =>
                  /\ Cardinality(ErrorsFor(k)) = 1
                  /\ \A i \in ErrorsFor(k) :
                       errors[i] = <<k, "still has the placeholder value">>
                  /\ ~env_valid
             /\ FoundLine(k) <=> ErrorsFor(k) = {}
             /\ environ[k] = "sk-real-value" => FoundLine(k)
        /\ (\A k \in Keys : environ[k] = None) =>
             errors = << <<ELEVENLABS, "is not set in .env file">>,
                         <<GEMINI, "is not set in .env file">> >>

\* Scenario B: ELEVENLABS_API_KEY holds its placeholder, GEMINI_API_KEY is
\* real: one error, and the GEMINI_API_KEY found line.
C9_Witness ==
    /\ pc = "env_checked"
    /\ envFile
    /\ environ[ELEVENLABS] = Placeholder(ELEVENLABS)
    /\ environ[GEMINI] = "sk-real-value"
    /\ Len(errors) = 1
    /\ FoundLine(GEMINI)

\* C10: with .env present, a key whose value in os.environ is the empty
\* string is reported with the "is not set in .env file" error, exactly as
\* an unset key is, and check_environment returns False.
C10_EmptyIsNotSet ==
    (EnvironmentChecked /\ envFile) =>
        \A k \in Keys :
            environ[k] \in {None, ""} =>
                /\ <<k, "is not set in .env file">> \in Range(errors)
                /\ ~FoundLine(k)
                /\ ~env_valid

\* .env defines GEMINI_API_KEY as empty and the check has run.
C10_Witness ==
    /\ pc = "env_checked"
    /\ envFile
    /\ dotenvValues[GEMINI] = ""
    /\ environ[GEMINI] = ""
    /\ environ[ELEVENLABS] = "sk-real-value"
    /\ ~env_valid

===========================================================================
